---- MODULE Spec2Model ----
(***************************************************************************)
(* Model of src/client/cosm_client.rs: the CosmClient transaction pipeline *)
(* (store / instantiate / execute / query) against a chain reached through *)
(* the transport client (abci_query, broadcast_commit).                    *)
(*                                                                         *)
(* Rust values are modelled as follows.                                    *)
(*   Option<T>      a sequence of length <= 1 (<<>> is None, <<x>> Some)   *)
(*   Result<T>      a record with kind "Ok" / "Err"; a panic (a failed     *)
(*                  unwrap) is the third kind "Panic"                      *)
(*   String values  sequences of one-character strings, so that parsing    *)
(*                  is computed character by character                     *)
(***************************************************************************)
EXTENDS Integers, Sequences, FiniteSets, TLC

\* ------------------------------------------------------------------ bounds
\* the signer's on-chain sequence number is explored from 0 up to MaxSeq
MaxSeq == 2
\* size of a deliver-phase event list: number of events + number of attributes
MaxSize == 4

\* ------------------------------------------------------------- basic sets
Callers == {1, 2}
TxOps == {"store", "instantiate", "execute"}

\* tendermint abci Code: Code::Ok is 0, every other value is Code::Err(n)
CodeOk == 0
Codes == {CodeOk, 5}
is_err(code) == code # CodeOk

Some(x) == <<x>>
NoneOpt == <<>>

Ok(v) == [kind |-> "Ok", val |-> v]
Err(m, p) == [kind |-> "Err", msg |-> m, payload |-> p]
Panic(at) == [kind |-> "Panic", at |-> at]

\* ------------------------------------------------------------ event lists
EventTypes == {"store_code", "instantiate"}
AttrKeys == {"code_id", "_contract_address"}
\* attribute values are strings; the lists explored in full use CoreValues
CoreValues == {<<"1","2">>, <<"7","x">>}
Attrs == [key : AttrKeys, value : CoreValues]

\* further code_id values, each explored in a store_code event of its own:
\* empty, zero, sign and leading zeros, a lone sign, a negative number,
\* 2^64 (one above u64::MAX), and twenty digits denoting 12
U64Overflow ==
    <<"1","8","4","4","6","7","4","4","0","7","3","7","0","9","5","5","1","6","1","6">>
PaddedTwelve ==
    <<"0","0","0","0","0","0","0","0","0","0","0","0","0","0","0","0","0","0","1","2">>
ParseValues ==
    {<<>>, <<"0">>, <<"+","0","7">>, <<"+">>, <<"-","7">>, <<"4","2","0">>,
     U64Overflow, PaddedTwelve}
ParseProbes ==
    { <<[type_str |-> "store_code",
         attributes |-> <<[key |-> "code_id", value |-> v]>>]>> : v \in ParseValues }

\* attribute lists of length exactly n
AttrListsOf(n) == [1..n -> Attrs]

\* event lists of k events holding at most n attributes in total
RECURSIVE EventListsOf(_, _)
EventListsOf(k, n) ==
    IF k = 0 THEN {<<>>}
    ELSE UNION { UNION { { <<[type_str |-> t, attributes |-> al]>> \o rest :
                             rest \in EventListsOf(k - 1, n - m) } :
                           t \in EventTypes, al \in AttrListsOf(m) } :
                 m \in 0..n }

EventLists ==
    UNION { EventListsOf(k, MaxSize - k) : k \in 0..MaxSize } \cup ParseProbes

\* TxResult { code, data, events } (log, gas_wanted, ... are never read)
TxResult(code, data, events) == [code |-> code, data |-> data, events |-> events]

\* events of the check phase: none, or one event of each type carrying "9"
CheckEvents ==
    << [type_str |-> "store_code",
        attributes |-> <<[key |-> "code_id", value |-> <<"9">>]>>],
       [type_str |-> "instantiate",
        attributes |-> <<[key |-> "_contract_address", value |-> <<"9">>]>>] >>
CheckEventLists == {<<>>, CheckEvents}

\* broadcast::tx_commit::Response { check_tx, deliver_tx }
ResponsesOf(checkEvents, deliverEvents) ==
    { [check_tx |-> TxResult(cc, NoneOpt, ce), deliver_tx |-> TxResult(dc, NoneOpt, ev)] :
        cc \in Codes, dc \in Codes, ce \in checkEvents, ev \in deliverEvents }
Responses == ResponsesOf(CheckEventLists, EventLists)
\* the responses without events
PlainResponses == ResponsesOf({<<>>}, {<<>>})

\* ------------------------------------------------------------ configuration
\* ChainCfg: chain_id, denom, gas_adjustment and gas_prices; the two numbers
\* are f64 in the code and are given here by the decimal fraction they are
\* written as (1.3 and 0.025)
Cfg ==
    [chain_id |-> "chain-1", denom |-> "ucosm",
     gas_adjustment |-> [num |-> 13, den |-> 10],
     gas_prices |-> [num |-> 1, den |-> 40]]

\* ---------------------------------------------------------- str::parse::<u64>
DigitChars == {"0", "1", "2", "3", "4", "5", "6", "7", "8", "9"}
DigitVal ==
    [c \in DigitChars |->
        CASE c = "0" -> 0 [] c = "1" -> 1 [] c = "2" -> 2 [] c = "3" -> 3
          [] c = "4" -> 4 [] c = "5" -> 5 [] c = "6" -> 6 [] c = "7" -> 7
          [] c = "8" -> 8 [] c = "9" -> 9]

\* u64::MAX = 18446744073709551615, as decimal digits
U64MaxDigits ==
    <<"1","8","4","4","6","7","4","4","0","7","3","7","0","9","5","5","1","6","1","5">>

RECURSIVE StripZeros(_)
StripZeros(ds) ==
    IF ds # <<>> /\ Head(ds) = "0" THEN StripZeros(Tail(ds)) ELSE ds

\* a > b for digit strings of the same length
RECURSIVE DigitsGreater(_, _)
DigitsGreater(a, b) ==
    IF a = <<>> THEN FALSE
    ELSE IF DigitVal[Head(a)] # DigitVal[Head(b)]
         THEN DigitVal[Head(a)] > DigitVal[Head(b)]
         ELSE DigitsGreater(Tail(a), Tail(b))

\* the digits denote a number above u64::MAX (checked_mul / checked_add fail)
OverflowsU64(ds) ==
    LET c == StripZeros(ds) IN
    \/ Len(c) > Len(U64MaxDigits)
    \/ Len(c) = Len(U64MaxDigits) /\ DigitsGreater(c, U64MaxDigits)

\* result = result * 10 + digit, left to right
RECURSIVE DigitsValue(_, _)
DigitsValue(ds, acc) ==
    IF ds = <<>> THEN acc ELSE DigitsValue(Tail(ds), acc * 10 + DigitVal[Head(ds)])

\* a parse that skips the characters that are no digits
parse_u64_lenient(src) ==
    LET digits == SelectSeq(src, LAMBDA ch : ch \in DigitChars) IN
    IF digits = <<>> \/ OverflowsU64(digits) THEN Err("ParseIntError", NoneOpt)
    ELSE Ok(DigitsValue(digits, 0))

\* u64::from_str: an empty string, a lone sign, a '-', a non-digit and a value
\* above u64::MAX are errors; one leading '+' is accepted
parse_u64(src) ==
    IF src = <<>> THEN Err("ParseIntError", NoneOpt)
    ELSE LET digits == IF Head(src) = "+" THEN Tail(src) ELSE src IN
         IF digits = <<>> THEN Err("ParseIntError", NoneOpt)
         ELSE IF \E i \in 1..Len(digits) : digits[i] \notin DigitChars
              THEN Err("ParseIntError", NoneOpt)
         ELSE IF OverflowsU64(digits) THEN Err("ParseIntError", NoneOpt)
         ELSE Ok(DigitsValue(digits, 0))

\* ------------------------------------------------------------- extraction
MinOf(S) == CHOOSE x \in S : \A y \in S : x <= y

\* a find_event that does not compare the event type
find_event_any_type(res, key_name) ==
    IF res.deliver_tx.events = <<>> THEN NoneOpt ELSE Some(res.deliver_tx.events[1])

\* a find_event that reads the check-phase events
find_event_check_phase(res, key_name) ==
    LET evs == res.check_tx.events
        hit == {i \in 1..Len(evs) : evs[i].type_str = key_name}
    IN  IF hit = {} THEN NoneOpt ELSE Some(evs[MinOf(hit)])

\* CosmClient::find_event: first event of deliver_tx whose type is key_name
find_event(res, key_name) ==
    LET evs == res.deliver_tx.events
        hit == {i \in 1..Len(evs) : evs[i].type_str = key_name}
    IN  IF hit = {} THEN NoneOpt ELSE Some(evs[MinOf(hit)])

\* attributes.iter().find(|a| a.key == key)
find_attribute(attributes, key) ==
    LET hit == {i \in 1..Len(attributes) : attributes[i].key = key}
    IN  IF hit = {} THEN NoneOpt ELSE Some(attributes[MinOf(hit)])

\* a send_tx without the deliver_tx check
check_commit_no_deliver_check(resp) ==
    IF is_err(resp.check_tx.code)
    THEN Err("check_tx failed", Some(resp.check_tx))
    ELSE Ok(resp)

\* a send_tx that checks deliver_tx before check_tx
check_commit_deliver_first(resp) ==
    IF is_err(resp.deliver_tx.code)
    THEN Err("deliver_tx failed", Some(resp.deliver_tx))
    ELSE IF is_err(resp.check_tx.code)
         THEN Err("check_tx failed", Some(resp.check_tx))
         ELSE Ok(resp)

\* a send_tx that reports check_tx in the deliver_tx failure
check_commit_wrong_payload(resp) ==
    IF is_err(resp.check_tx.code)
    THEN Err("check_tx failed", Some(resp.check_tx))
    ELSE IF is_err(resp.deliver_tx.code)
         THEN Err("deliver_tx failed", Some(resp.check_tx))
         ELSE Ok(resp)

\* send_tx, after broadcast_commit returned: the two code checks
check_commit(resp) ==
    IF is_err(resp.check_tx.code)
    THEN Err("check_tx failed", Some(resp.check_tx))
    ELSE IF is_err(resp.deliver_tx.code)
         THEN Err("deliver_tx failed", Some(resp.deliver_tx))
         ELSE Ok(resp)

\* store, after send_tx returned Ok(tx_res)
store_extract(tx_res) ==
    LET res == find_event(tx_res, "store_code") IN
    IF res = NoneOpt THEN Err("error storing code", NoneOpt)
    ELSE LET attr == find_attribute(res[1].attributes, "code_id") IN
         IF attr = NoneOpt THEN Panic("Option::unwrap")
         ELSE LET parsed == parse_u64(attr[1].value) IN
              IF parsed.kind = "Err" THEN parsed
              ELSE Ok([code_id |-> parsed.val, data |-> tx_res.deliver_tx])

\* an instantiate that returns the address in upper case
instantiate_extract_upper_case(tx_res) ==
    LET res == find_event(tx_res, "instantiate") IN
    IF res = NoneOpt THEN Err("error instantiating code", NoneOpt)
    ELSE LET attr == find_attribute(res[1].attributes, "_contract_address") IN
         IF attr = NoneOpt THEN Panic("Option::unwrap")
         ELSE Ok([address |-> [k \in 1..Len(attr[1].value) |->
                                  IF attr[1].value[k] = "x" THEN "X" ELSE attr[1].value[k]],
                  data |-> tx_res.deliver_tx])

\* instantiate, after send_tx returned Ok(tx_res)
instantiate_extract(tx_res) ==
    LET res == find_event(tx_res, "instantiate") IN
    IF res = NoneOpt THEN Err("error instantiating code", NoneOpt)
    ELSE LET attr == find_attribute(res[1].attributes, "_contract_address") IN
         IF attr = NoneOpt THEN Panic("Option::unwrap")
         ELSE Ok([address |-> attr[1].value, data |-> tx_res.deliver_tx])

\* an execute that wants an event in the deliver phase
execute_extract_needs_event(tx_res) ==
    IF tx_res.deliver_tx.events = <<>> THEN Err("error executing", NoneOpt)
    ELSE Ok([data |-> tx_res.deliver_tx])

\* an execute that returns the check-phase result
execute_extract_check_phase(tx_res) == Ok([data |-> tx_res.check_tx])

\* execute, after send_tx returned Ok(tx_res)
execute_extract(tx_res) == Ok([data |-> tx_res.deliver_tx])

\* the part of store / instantiate / execute that follows `send_tx(..).await?`:
\* the value returned to the caller and the extractor calls made
after_send_tx(o, sent) ==
    IF sent.kind # "Ok" THEN [ret |-> sent, calls |-> <<>>]
    ELSE CASE o = "store" ->
                [ret |-> store_extract(sent.val), calls |-> <<"find_event">>]
           [] o = "instantiate" ->
                [ret |-> instantiate_extract(sent.val), calls |-> <<"find_event">>]
           [] OTHER ->
                [ret |-> execute_extract(sent.val), calls |-> <<>>]

\* ---------------------------------------------------- transport and codec
\* A transport call fails (Err "transport") or returns what the chain answered.
\* The answer of abci_query is AbciQuery { code, value }: value is the encoded
\* response message; a message equal to its default encodes to no bytes, and
\* decoding no bytes yields the default message (protobuf).
TransportErr == Err("transport", NoneOpt)
Garbage == <<[undecodable |-> TRUE]>>
encode(m, default) == IF m = default THEN <<>> ELSE <<[msg |-> m]>>
decode(value, default) ==
    IF value = <<>> THEN Ok(default)
    ELSE IF "msg" \in DOMAIN value[1] THEN Ok(value[1].msg)
    ELSE Err("DecodeError", NoneOpt)
AbciQuery(code, value) == [code |-> code, value |-> value]

DefaultQueryAccountResponse == [account |-> NoneOpt]
DefaultSimulateResponse == [gas_info |-> NoneOpt]
DefaultQuerySmartContractStateResponse == [data |-> <<>>]

\* what the chain may answer on /cosmos.auth.v1beta1.Query/Account
AccountNumbers == {4}
AccountAnswers(seq) ==
    { Ok(AbciQuery(CodeOk,
                   encode([account |-> Some([account_number |-> n, sequence |-> seq])],
                          DefaultQueryAccountResponse))) : n \in AccountNumbers }
    \cup { Ok(AbciQuery(5, <<>>)), Ok(AbciQuery(CodeOk, Garbage)), TransportErr }

\* what the chain may answer on /cosmos.tx.v1beta1.Service/Simulate
GasUsedValues == {100000}
SimulateAnswersOf(gasUsed) ==
    { Ok(AbciQuery(CodeOk,
                   encode([gas_info |-> Some([gas_used |-> g])], DefaultSimulateResponse))) :
        g \in gasUsed }
    \cup { Ok(AbciQuery(5, <<>>)), Ok(AbciQuery(CodeOk, Garbage)), TransportErr }
SimulateAnswers == SimulateAnswersOf(GasUsedValues)

\* what the chain may answer on /cosmwasm.wasm.v1.Query/SmartContractState:
\* the contract's answer, or a non-OK code with no value when the query fails
QueryData == {<<>>, <<1>>}
QueryAnswers ==
    { Ok(AbciQuery(CodeOk, encode([data |-> d], DefaultQuerySmartContractStateResponse))) :
        d \in QueryData }
    \cup { Ok(AbciQuery(5, <<>>)), Ok(AbciQuery(CodeOk, Garbage)), TransportErr }

\* what broadcast_commit may return for a transaction carrying sequence txseq
\* while the signer's sequence on chain is seq: a transport failure (the
\* transaction admitted or not), or a commit response; a transaction with a
\* wrong sequence is rejected in the check phase
BroadcastAnswersOf(responses, txseq, seq) ==
    { [kind |-> "Err", admitted |-> a] : a \in {FALSE, txseq = seq} }
    \cup { Ok(r) : r \in { x \in responses :
                             txseq # seq => is_err(x.check_tx.code) } }
BroadcastAnswers(txseq, seq) == BroadcastAnswersOf(Responses, txseq, seq)

admitted(b) ==
    IF b.kind = "Ok" THEN ~is_err(b.val.check_tx.code) ELSE b.admitted

\* ------------------------------------------------------------------- state
VARIABLES
    cfg,        \* CosmClient::cfg, fixed at construction
    chainSeq,   \* the signer's sequence number on chain
    pc,         \* per caller: idle, account, simulate, broadcast, query, done
    op,         \* per caller: the operation invoked
    answered,   \* per caller: the account the chain put in its answer (Option)
    simulated,  \* per caller: the gas_info the chain put in its answer (Option)
    account,    \* per caller: the BaseAccount send_tx holds (Option)
    probe,      \* per caller: the sign doc of the simulation probe (Option)
    fee,        \* per caller: the Fee returned by simulate_gas_fee (Option)
    tx,         \* per caller: the sign doc of the transaction broadcast (Option)
    commit,     \* per caller: the Response broadcast_commit returned (Option)
    queried,    \* per caller: the AbciQuery the query endpoint answered (Option)
    ret,        \* per caller: what the operation returns (Option)
    calls,      \* per caller: transport, signing and extractor calls, in order
    race        \* per caller: overlapped - another invocation was in flight
                \* during this one; stale - the transaction was broadcast
                \* with a sequence other than the signer's sequence on chain

vars ==
    <<cfg, chainSeq, pc, op, answered, simulated, account, probe, fee, tx, commit,
      queried, ret, calls, race>>

\* ------------------------------------------------------------ the pipeline
\* an account() that answers from the account resolved first (sequence 0)
account_result_cached(q) ==
    IF q.kind = "Err" THEN q
    ELSE LET res == decode(q.val.value, DefaultQueryAccountResponse) IN
         IF res.kind = "Err" THEN res
         ELSE IF res.val.account = NoneOpt THEN Err("cannot fetch account", NoneOpt)
         ELSE Ok([res.val.account[1] EXCEPT !.sequence = 0])

\* CosmClient::account
account_result(q) ==
    IF q.kind = "Err" THEN q
    ELSE LET res == decode(q.val.value, DefaultQueryAccountResponse) IN
         IF res.kind = "Err" THEN res
         ELSE IF res.val.account = NoneOpt THEN Err("cannot fetch account", NoneOpt)
         ELSE Ok(res.val.account[1])

\* ---------------------------------------------------------------- f64
\* An f64 that is zero or positive and normal is [m, e]: m holds its 53
\* significand bits, most significant first, and its value is m * 2^e; zero
\* has no bits. Arithmetic rounds to nearest, ties to even. Numbers of more
\* than 31 bits are handled as bits or as limbs of LimbBits bits.
SignificandBits == 53
LimbBits == 8
Limb == 2 ^ LimbBits
F64Zero == [m |-> <<>>, e |-> 0]

\* the w bits of n < 2^w, most significant first
BitsOf(n, w) == [i \in 1..w |-> (n \div (2 ^ (w - i))) % 2]

\* bits without their leading zeros
Strip(bits) ==
    IF \A i \in 1..Len(bits) : bits[i] = 0 THEN <<>>
    ELSE SubSeq(bits, MinOf({i \in 1..Len(bits) : bits[i] = 1}), Len(bits))

\* the number a limb's bits stand for
RECURSIVE IntOf(_)
IntOf(bits) ==
    IF bits = <<>> THEN 0
    ELSE 2 * IntOf(SubSeq(bits, 1, Len(bits) - 1)) + bits[Len(bits)]

\* bits as limbs, most significant first, and back
ToLimbs(bits) ==
    LET n == (Len(bits) + LimbBits - 1) \div LimbBits
        padded == [i \in 1..(n * LimbBits - Len(bits)) |-> 0] \o bits
    IN  [j \in 1..n |-> IntOf(SubSeq(padded, (j - 1) * LimbBits + 1, j * LimbBits))]
FromLimbs(limbs) ==
    [i \in 1..(Len(limbs) * LimbBits) |->
        BitsOf(limbs[((i - 1) \div LimbBits) + 1], LimbBits)[((i - 1) % LimbBits) + 1]]

\* the number limbs stand for, when it fits 31 bits
RECURSIVE ValueOf(_)
ValueOf(limbs) ==
    IF limbs = <<>> THEN 0
    ELSE ValueOf(SubSeq(limbs, 1, Len(limbs) - 1)) * Limb + limbs[Len(limbs)]

\* bits + 1
IncBits(bits) ==
    LET zeros == {i \in 1..Len(bits) : bits[i] = 0} IN
    IF zeros = {} THEN <<1>> \o [i \in 1..Len(bits) |-> 0]
    ELSE LET k == CHOOSE i \in zeros : \A j \in zeros : j <= i IN
         [i \in 1..Len(bits) |-> IF i < k THEN bits[i] ELSE IF i = k THEN 1 ELSE 0]

\* the f64 nearest to bits * 2^e (bits start with a 1)
RoundBits(bits, e) ==
    LET len == Len(bits) IN
    IF len <= SignificandBits
    THEN [m |-> bits \o [i \in 1..(SignificandBits - len) |-> 0],
          e |-> e - (SignificandBits - len)]
    ELSE LET keep == SubSeq(bits, 1, SignificandBits)
             half == bits[SignificandBits + 1]
             rest == \E i \in (SignificandBits + 2)..len : bits[i] = 1
             up == half = 1 /\ (rest \/ keep[SignificandBits] = 1)
             inc == IF up THEN IncBits(keep) ELSE keep
         IN  IF Len(inc) > SignificandBits
             THEN [m |-> SubSeq(inc, 1, SignificandBits),
                   e |-> e + (len - SignificandBits) + 1]
             ELSE [m |-> inc, e |-> e + (len - SignificandBits)]

\* the first k limbs of the fraction r / d (r < d), and what is left of r
RECURSIVE FractionLimbs(_, _, _)
FractionLimbs(r, d, k) ==
    IF k = 0 THEN <<>>
    ELSE <<(r * Limb) \div d>> \o FractionLimbs((r * Limb) % d, d, k - 1)
RECURSIVE FractionRest(_, _, _)
FractionRest(r, d, k) ==
    IF k = 0 THEN r ELSE FractionRest((r * Limb) % d, d, k - 1)

\* the f64 nearest to the fraction r.num / r.den (at least 2^-24): its bits
\* to well beyond the significand, and one more bit for what is cut off
F64Of(r) ==
    IF r.num = 0 THEN F64Zero
    ELSE LET k == (SignificandBits + 24) \div LimbBits + 1
             whole == BitsOf(r.num \div r.den, 31)
             frac == FromLimbs(FractionLimbs(r.num % r.den, r.den, k))
             cut == IF FractionRest(r.num % r.den, r.den, k) = 0 THEN <<>> ELSE <<1>>
         IN  RoundBits(Strip(whole \o frac \o cut), 0 - (k * LimbBits + Len(cut)))

\* limbs * g + carry, as limbs (g below 2^23)
RECURSIVE MulLimbs(_, _, _)
MulLimbs(limbs, g, carry) ==
    IF limbs = <<>> THEN ToLimbs(BitsOf(carry, 31))
    ELSE LET t == limbs[Len(limbs)] * g + carry IN
         Append(MulLimbs(SubSeq(limbs, 1, Len(limbs) - 1), g, t \div Limb), t % Limb)

\* (g as f64) * x for an integer g that an f64 holds exactly
F64MulInt(g, x) ==
    IF g = 0 \/ x.m = <<>> THEN F64Zero
    ELSE RoundBits(Strip(FromLimbs(MulLimbs(ToLimbs(x.m), g, 0))), x.e)

\* x.ceil() as u64, for x below 2^31
F64CeilU64(x) ==
    IF x.m = <<>> THEN 0
    ELSE IF 0 - x.e >= SignificandBits THEN 1
    ELSE LET n == SignificandBits + x.e IN
         ValueOf(ToLimbs(SubSeq(x.m, 1, n)))
           + (IF \E i \in (n + 1)..SignificandBits : x.m[i] = 1 THEN 1 ELSE 0)

\* (x as f64 * r).ceil() as u64, r the f64 nearest to the configured fraction
CeilMul(x, r) == F64CeilU64(F64MulInt(x, F64Of(r)))

Fee(amount, gas_limit) == [denom |-> cfg.denom, amount |-> amount, gas_limit |-> gas_limit]

\* SignDoc::new(body, SignerInfo(sequence).auth_info(fee), chain_id, account_number)
SignDoc(body, acct, auth_fee) ==
    [body |-> body, sequence |-> acct.sequence, fee |-> auth_fee,
     chain_id |-> cfg.chain_id, account_number |-> acct.account_number]

\* tx::Body::new(vec![msg], "MEMO", timeout_height)
Body(o) == [msg |-> o, memo |-> "MEMO", timeout_height |-> 0]

\* a probe signed for the sequence number after the resolved one
probe_doc_next_sequence(body, acct) ==
    SignDoc(body, [acct EXCEPT !.sequence = @ + 1], Fee(0, 0))

\* the probe of simulate_gas_fee: zero amount, zero gas limit
probe_doc(body, acct) == SignDoc(body, acct, Fee(0, 0))

\* a simulate_gas_fee that goes on with a zero fee when no gas info came back
fee_from_zero_on_failure(q) ==
    IF q.kind = "Err" THEN q
    ELSE LET res == decode(q.val.value, DefaultSimulateResponse) IN
         IF res.kind = "Err" THEN res
         ELSE IF res.val.gas_info = NoneOpt THEN Ok(Fee(0, 0))
         ELSE LET gas_limit == CeilMul(res.val.gas_info[1].gas_used, cfg.gas_adjustment)
              IN  Ok(Fee(CeilMul(gas_limit, cfg.gas_prices), gas_limit))

\* simulate_gas_fee, from the answer of the simulate endpoint
fee_from(q) ==
    IF q.kind = "Err" THEN q
    ELSE LET res == decode(q.val.value, DefaultSimulateResponse) IN
         IF res.kind = "Err" THEN res
         ELSE IF res.val.gas_info = NoneOpt THEN Err("error simulating tx", NoneOpt)
         ELSE LET gas_limit == CeilMul(res.val.gas_info[1].gas_used, cfg.gas_adjustment)
              IN  Ok(Fee(CeilMul(gas_limit, cfg.gas_prices), gas_limit))

\* simulate_gas_fee: sign the probe (unwrap), query the endpoint, compute the fee
simulate_gas_fee(signOk, q) ==
    IF ~signOk THEN [ret |-> Panic("sign"), calls |-> <<"sign">>]
    ELSE [ret |-> fee_from(q), calls |-> <<"sign", "Simulate">>]

\* a send_tx that broadcasts again after a check_tx failure
send_tx_commit_retry(signOk, b) ==
    IF ~signOk THEN [ret |-> Panic("sign"), calls |-> <<"sign">>]
    ELSE IF b.kind = "Err"
         THEN [ret |-> Panic("broadcast_commit"), calls |-> <<"sign", "broadcast_commit">>]
         ELSE [ret |-> check_commit(b.val),
               calls |-> IF is_err(b.val.check_tx.code)
                         THEN <<"sign", "broadcast_commit", "Account", "sign", "broadcast_commit">>
                         ELSE <<"sign", "broadcast_commit">>]

\* send_tx from sign_doc.sign(key) on: sign (unwrap), broadcast_commit (unwrap),
\* then the two code checks
send_tx_commit(signOk, b) ==
    IF ~signOk THEN [ret |-> Panic("sign"), calls |-> <<"sign">>]
    ELSE IF b.kind = "Err"
         THEN [ret |-> Panic("broadcast_commit"), calls |-> <<"sign", "broadcast_commit">>]
         ELSE [ret |-> check_commit(b.val), calls |-> <<"sign", "broadcast_commit">>]

\* a query that resolves the account first
query_with_account(q) ==
    [ret |-> IF q.kind = "Err" THEN q
             ELSE LET res == decode(q.val.value, DefaultQuerySmartContractStateResponse) IN
                  IF res.kind = "Err" THEN res
                  ELSE Ok([data |-> TxResult(CodeOk, Some(res.val.data), <<>>)]),
     calls |-> <<"Account", "SmartContractState">>]

\* CosmClient::query, from the answer of the smart-contract-state endpoint
query(q) ==
    [ret |-> IF q.kind = "Err" THEN q
             ELSE LET res == decode(q.val.value, DefaultQuerySmartContractStateResponse) IN
                  IF res.kind = "Err" THEN res
                  ELSE Ok([data |-> TxResult(CodeOk, Some(res.val.data), <<>>)]),
     calls |-> <<"SmartContractState">>]

Fresh == [c \in Callers |-> NoneOpt]
NoRace == [overlapped |-> FALSE, stale |-> FALSE]

\* the state after CosmClient::new(config): nothing in flight
Idle(config) ==
    /\ cfg = config
    /\ chainSeq = 0
    /\ pc = [c \in Callers |-> "idle"]
    /\ op = [c \in Callers |-> "none"]
    /\ answered = Fresh
    /\ simulated = Fresh
    /\ account = Fresh
    /\ probe = Fresh
    /\ fee = Fresh
    /\ tx = Fresh
    /\ commit = Fresh
    /\ queried = Fresh
    /\ ret = Fresh
    /\ calls = Fresh
    /\ race = [c \in Callers |-> NoRace]

Init == Idle(Cfg)

\* one operation at a time: the caller drives each pipeline to completion
NoneInFlight == \A d \in Callers : pc[d] = "idle"

\* an invocation runs in the first free slot
FirstFree(c) == c = MinOf({d \in Callers : pc[d] = "idle"})

\* an invocation is running between its call and its return value
Running(d) == pc[d] \notin {"idle", "done"}

\* store / instantiate / execute up to the first await of send_tx; execute
\* parses the contract address first (unwrap)
Begin(c, o, addrOk) ==
    /\ pc[c] = "idle"
    /\ chainSeq < MaxSeq
    /\ op' = [op EXCEPT ![c] = o]
    /\ IF o = "execute" /\ ~addrOk
       THEN /\ pc' = [pc EXCEPT ![c] = "done"]
            /\ ret' = [ret EXCEPT ![c] = Some(Panic("Result::unwrap"))]
            /\ race' = race
       ELSE /\ pc' = [pc EXCEPT ![c] = "account"]
            /\ ret' = ret
            /\ race' = [d \in Callers |->
                  IF \E e \in Callers \ {c} : Running(e)
                  THEN IF d = c \/ Running(d)
                       THEN [race[d] EXCEPT !.overlapped = TRUE] ELSE race[d]
                  ELSE race[d]]
    /\ UNCHANGED <<cfg, chainSeq, answered, simulated, account, probe, fee, tx, commit,
                   queried, calls>>

\* an invocation the caller makes after the previous one has returned
StartTx(c, o, addrOk) ==
    /\ NoneInFlight
    /\ FirstFree(c)
    /\ Begin(c, o, addrOk)

\* an invocation the caller makes whatever else is in flight
StartConcurrently(c, o) == Begin(c, o, TRUE)

\* query up to its await of abci_query
StartQuery(c) ==
    /\ NoneInFlight
    /\ FirstFree(c)
    /\ op' = [op EXCEPT ![c] = "query"]
    /\ pc' = [pc EXCEPT ![c] = "query"]
    /\ UNCHANGED <<cfg, chainSeq, answered, simulated, account, probe, fee, tx, commit,
                   queried, ret, calls, race>>

\* send_tx: `self.account(account_id).await?`
ResolveAccount(c) ==
    /\ pc[c] = "account"
    /\ \E q \in AccountAnswers(chainSeq) :
         LET r == account_result(q) IN
         /\ answered' = [answered EXCEPT ![c] =
                IF q.kind = "Ok" /\ q.val.value # <<>> /\ q.val.value # Garbage
                THEN q.val.value[1].msg.account ELSE NoneOpt]
         /\ calls' = [calls EXCEPT ![c] = Append(@, "Account")]
         /\ IF r.kind = "Ok"
            THEN /\ account' = [account EXCEPT ![c] = Some(r.val)]
                 /\ pc' = [pc EXCEPT ![c] = "simulate"]
                 /\ ret' = ret
            ELSE /\ account' = account
                 /\ pc' = [pc EXCEPT ![c] = "done"]
                 /\ ret' = [ret EXCEPT ![c] = Some(r)]
    /\ UNCHANGED <<cfg, chainSeq, op, simulated, probe, fee, tx, commit, queried, race>>

\* send_tx: `self.simulate_gas_fee(&tx_body, &account, key).await?`, the
\* simulate endpoint answering one of answers
SimulateGasFeeFrom(c, answers) ==
    /\ pc[c] = "simulate"
    /\ \E signOk \in BOOLEAN, q \in answers :
         LET r == simulate_gas_fee(signOk, q) IN
         /\ probe' = [probe EXCEPT ![c] = Some(probe_doc(Body(op[c]), account[c][1]))]
         /\ simulated' = [simulated EXCEPT ![c] =
                IF signOk /\ q.kind = "Ok" /\ q.val.value # <<>> /\ q.val.value # Garbage
                THEN q.val.value[1].msg.gas_info ELSE NoneOpt]
         /\ calls' = [calls EXCEPT ![c] = @ \o r.calls]
         /\ IF r.ret.kind = "Ok"
            THEN /\ fee' = [fee EXCEPT ![c] = Some(r.ret.val)]
                 /\ pc' = [pc EXCEPT ![c] = "broadcast"]
                 /\ ret' = ret
            ELSE /\ fee' = fee
                 /\ pc' = [pc EXCEPT ![c] = "done"]
                 /\ ret' = [ret EXCEPT ![c] = Some(r.ret)]
    /\ UNCHANGED <<cfg, chainSeq, op, answered, account, tx, commit, queried, race>>

SimulateGasFee(c) == SimulateGasFeeFrom(c, SimulateAnswers)

\* send_tx from the signing of the transaction to its return, and the rest of
\* store / instantiate / execute (no await in between), broadcast_commit
\* returning a response of responses
BroadcastCommitFrom(c, responses) ==
    /\ pc[c] = "broadcast"
    /\ LET doc == SignDoc(Body(op[c]), account[c][1], fee[c][1]) IN
       \E signOk \in BOOLEAN, b \in BroadcastAnswersOf(responses, doc.sequence, chainSeq) :
         LET sent == send_tx_commit(signOk, b)
             fin == after_send_tx(op[c], sent.ret)
         IN  /\ tx' = [tx EXCEPT ![c] = IF signOk THEN Some(doc) ELSE NoneOpt]
             /\ commit' = [commit EXCEPT ![c] =
                    IF signOk /\ b.kind = "Ok" THEN Some(b.val) ELSE NoneOpt]
             /\ chainSeq' = IF signOk /\ admitted(b) THEN chainSeq + 1 ELSE chainSeq
             /\ race' = [race EXCEPT ![c].stale = signOk /\ doc.sequence # chainSeq]
             /\ calls' = [calls EXCEPT ![c] = @ \o sent.calls \o fin.calls]
             /\ ret' = [ret EXCEPT ![c] = Some(fin.ret)]
             /\ pc' = [pc EXCEPT ![c] = "done"]
    /\ UNCHANGED <<cfg, op, answered, simulated, account, probe, fee, queried>>

BroadcastCommit(c) == BroadcastCommitFrom(c, Responses)

\* query from the answer of abci_query to its return
QueryCall(c) ==
    /\ pc[c] = "query"
    /\ \E q \in QueryAnswers :
         LET r == query(q) IN
         /\ queried' = [queried EXCEPT ![c] = IF q.kind = "Ok" THEN Some(q.val) ELSE NoneOpt]
         /\ calls' = [calls EXCEPT ![c] = @ \o r.calls]
         /\ ret' = [ret EXCEPT ![c] = Some(r.ret)]
         /\ pc' = [pc EXCEPT ![c] = "done"]
    /\ UNCHANGED <<cfg, chainSeq, op, answered, simulated, account, probe, fee, tx, commit,
                   race>>

\* the caller takes the returned value; the invocation's locals are dropped
Return(c) ==
    /\ pc[c] = "done"
    /\ pc' = [pc EXCEPT ![c] = "idle"]
    /\ op' = [op EXCEPT ![c] = "none"]
    /\ answered' = [answered EXCEPT ![c] = NoneOpt]
    /\ simulated' = [simulated EXCEPT ![c] = NoneOpt]
    /\ account' = [account EXCEPT ![c] = NoneOpt]
    /\ probe' = [probe EXCEPT ![c] = NoneOpt]
    /\ fee' = [fee EXCEPT ![c] = NoneOpt]
    /\ tx' = [tx EXCEPT ![c] = NoneOpt]
    /\ commit' = [commit EXCEPT ![c] = NoneOpt]
    /\ queried' = [queried EXCEPT ![c] = NoneOpt]
    /\ ret' = [ret EXCEPT ![c] = NoneOpt]
    /\ calls' = [calls EXCEPT ![c] = <<>>]
    /\ race' = [race EXCEPT ![c] = NoRace]
    /\ UNCHANGED <<cfg, chainSeq>>

Next ==
    \/ \E c \in Callers, o \in TxOps, addrOk \in BOOLEAN : StartTx(c, o, addrOk)
    \/ \E c \in Callers : StartQuery(c)
    \/ \E c \in Callers : ResolveAccount(c)
    \/ \E c \in Callers : SimulateGasFee(c)
    \/ \E c \in Callers : BroadcastCommit(c)
    \/ \E c \in Callers : QueryCall(c)
    \/ \E c \in Callers : Return(c)

Spec == Init /\ [][Next]_vars

\* ------------------------------------------- fees over configurations
\* the configurations a client may be built with, and the gas the simulate
\* endpoint may report
GasAdjustments ==
    { [num |-> 1, den |-> 1], [num |-> 11, den |-> 10], [num |-> 13, den |-> 10],
      [num |-> 3, den |-> 2] }
GasPrices == { [num |-> 1, den |-> 40], [num |-> 1, den |-> 10], [num |-> 1, den |-> 4] }
Configs ==
    { [Cfg EXCEPT !.gas_adjustment = a, !.gas_prices = p] :
        a \in GasAdjustments, p \in GasPrices }
FeeGasValues == {0, 1, 10, 50, 90, 100, 170, 99999, 100000, 1000000}

InitFee == \E config \in Configs : Idle(config)

SimulateAnyGas(c) == SimulateGasFeeFrom(c, SimulateAnswersOf(FeeGasValues))

\* broadcast_commit returning a response without events
BroadcastPlain(c) == BroadcastCommitFrom(c, PlainResponses)

NextFee ==
    \/ \E c \in Callers, o \in TxOps, addrOk \in BOOLEAN : StartTx(c, o, addrOk)
    \/ \E c \in Callers : ResolveAccount(c)
    \/ \E c \in Callers : SimulateAnyGas(c)
    \/ \E c \in Callers : BroadcastPlain(c)
    \/ \E c \in Callers : Return(c)

SpecFee == InitFee /\ [][NextFee]_vars

\* ------------------------------------------- invocations in any interleaving
NextConc ==
    \/ \E c \in Callers, o \in TxOps : StartConcurrently(c, o)
    \/ \E c \in Callers : ResolveAccount(c)
    \/ \E c \in Callers : SimulateGasFee(c)
    \/ \E c \in Callers : BroadcastPlain(c)
    \/ \E c \in Callers : Return(c)

SpecConc == Init /\ [][NextConc]_vars

\* ============================================================ properties
Done(c) == pc[c] = "done"
Returned(c) == ret[c][1]
Committed(c) == commit[c] # NoneOpt
CheckOk(c) == ~is_err(commit[c][1].check_tx.code)
DeliverOk(c) == ~is_err(commit[c][1].deliver_tx.code)
DeliverEvents(c) == commit[c][1].deliver_tx.events
Count(seq, x) == Cardinality({i \in 1..Len(seq) : seq[i] = x})
RequiredEvent(o) == IF o = "store" THEN "store_code" ELSE "instantiate"
RequiredKey(o) == IF o = "store" THEN "code_id" ELSE "_contract_address"
HasEvent(evs, t) == \E i \in 1..Len(evs) : evs[i].type_str = t
\* i is the first event of type t, j the first attribute of key k in it
IsFirst(evs, t, i) ==
    /\ i \in 1..Len(evs)
    /\ evs[i].type_str = t
    /\ \A h \in 1..(i - 1) : evs[h].type_str # t
IsFirstAttr(attrs, k, j) ==
    /\ j \in 1..Len(attrs)
    /\ attrs[j].key = k
    /\ \A h \in 1..(j - 1) : attrs[h].key # k

\* C1: store / instantiate / execute return a success only if the commit
\* result of their broadcast has an OK code in the check phase and in the
\* deliver phase; with any other combination of the two codes they fail.
C1_SuccessOnlyIfBothPhasesOk ==
    \A c \in Callers :
        Done(c) /\ op[c] \in TxOps =>
            /\ Returned(c).kind = "Ok" => Committed(c) /\ CheckOk(c) /\ DeliverOk(c)
            /\ Committed(c) /\ ~(CheckOk(c) /\ DeliverOk(c)) => Returned(c).kind = "Err"

C1_Witness ==
    \E c \in Callers :
        /\ Done(c) /\ op[c] = "execute" /\ Returned(c).kind = "Ok"
        /\ Committed(c) /\ CheckOk(c) /\ DeliverOk(c)

\* C2: when the check phase has a non-OK code the operation fails with the
\* check_tx failure carrying the check-phase result, whatever the deliver
\* code is, and the deliver-phase events are never read (no find_event call).
C2_CheckFailureReported ==
    \A c \in Callers :
        Done(c) /\ op[c] \in TxOps /\ Committed(c) /\ ~CheckOk(c) =>
            /\ Returned(c) = Err("check_tx failed", Some(commit[c][1].check_tx))
            /\ Count(calls[c], "find_event") = 0

C2_Witness ==
    \E c \in Callers :
        /\ Done(c) /\ op[c] = "store" /\ Committed(c)
        /\ ~CheckOk(c) /\ ~DeliverOk(c)
        /\ HasEvent(DeliverEvents(c), "store_code")
        /\ Returned(c).msg = "check_tx failed"

\* C3: when the check phase is OK and the deliver phase has a non-OK code
\* the operation fails with the deliver_tx failure carrying the raw
\* deliver-phase result; no event is extracted and no response is produced.
C3_DeliverFailureReported ==
    \A c \in Callers :
        Done(c) /\ op[c] \in TxOps /\ Committed(c) /\ CheckOk(c) /\ ~DeliverOk(c) =>
            /\ Returned(c) = Err("deliver_tx failed", Some(commit[c][1].deliver_tx))
            /\ Count(calls[c], "find_event") = 0

C3_Witness ==
    \E c \in Callers :
        /\ Done(c) /\ op[c] = "instantiate" /\ Committed(c)
        /\ CheckOk(c) /\ ~DeliverOk(c)
        /\ HasEvent(DeliverEvents(c), "instantiate")
        /\ Returned(c).msg = "deliver_tx failed"

\* C4: when both phases are OK and the deliver phase holds no event of the
\* required type (store_code for store, instantiate for instantiate), the
\* operation fails with its event-not-found error and returns no response.
C4_MissingEventFails ==
    \A c \in Callers :
        /\ Done(c) /\ op[c] \in {"store", "instantiate"} /\ Committed(c)
        /\ CheckOk(c) /\ DeliverOk(c)
        /\ ~HasEvent(DeliverEvents(c), RequiredEvent(op[c]))
        => Returned(c) = Err(IF op[c] = "store" THEN "error storing code"
                                                ELSE "error instantiating code", NoneOpt)

C4_Witness ==
    \E c \in Callers :
        /\ Done(c) /\ op[c] = "store" /\ Committed(c)
        /\ CheckOk(c) /\ DeliverOk(c)
        /\ DeliverEvents(c) # <<>>
        /\ ~HasEvent(DeliverEvents(c), "store_code")
        /\ Returned(c).kind = "Err"

\* C5: when the matched event has no attribute with the expected key
\* (code_id, resp. _contract_address), store / instantiate return a failure
\* to the caller; they do not crash.
C5_MissingAttributeFails ==
    \A c \in Callers :
        /\ Done(c) /\ op[c] \in {"store", "instantiate"} /\ Committed(c)
        /\ CheckOk(c) /\ DeliverOk(c)
        => \A i \in 1..Len(DeliverEvents(c)) :
              /\ IsFirst(DeliverEvents(c), RequiredEvent(op[c]), i)
              /\ \A j \in 1..Len(DeliverEvents(c)[i].attributes) :
                     DeliverEvents(c)[i].attributes[j].key # RequiredKey(op[c])
              => Returned(c).kind = "Err"

\* C6: a query makes exactly one transport call, to the smart-contract-state
\* endpoint, and no account, simulation, signing or broadcast call, whether
\* it succeeds or fails.
C6_QueryMakesOneCall ==
    \A c \in Callers :
        op[c] = "query" =>
            /\ calls[c] = IF Done(c) THEN <<"SmartContractState">> ELSE <<>>
            /\ account[c] = NoneOpt /\ probe[c] = NoneOpt
            /\ tx[c] = NoneOpt /\ commit[c] = NoneOpt

C6_Witness ==
    \E c \in Callers :
        /\ Done(c) /\ op[c] = "query" /\ Returned(c).kind = "Err"
        /\ calls[c] = <<"SmartContractState">>

\* C7: when the query endpoint answers with a non-OK code, query returns a
\* failure, never a success with an OK code and an empty payload.
C7_FailedQueryFails ==
    \A c \in Callers :
        /\ Done(c) /\ op[c] = "query"
        /\ queried[c] # NoneOpt /\ is_err(queried[c][1].code)
        => Returned(c).kind = "Err"

\* C8: every store / instantiate / execute queries the account once, before
\* signing, and the transaction it broadcasts carries the sequence and the
\* account number the chain answered to that query; nothing resolved by an
\* earlier invocation is reused.
C8_SequenceResolvedPerInvocation ==
    \A c \in Callers :
        tx[c] # NoneOpt =>
            /\ answered[c] # NoneOpt
            /\ tx[c][1].sequence = answered[c][1].sequence
            /\ tx[c][1].account_number = answered[c][1].account_number
            /\ Count(calls[c], "Account") = 1
            /\ calls[c][1] = "Account"

C8_Witness ==
    \E c \in Callers :
        /\ Done(c) /\ tx[c] # NoneOpt /\ Committed(c)
        /\ tx[c][1].sequence = 1
        /\ CheckOk(c)
        /\ chainSeq = 2

\* C9: an invocation submits at most one broadcast; after a check_tx or a
\* deliver_tx failure it returns having made one account query, one
\* simulation and one broadcast, and none after the broadcast.
C9_NoRetry ==
    \A c \in Callers :
        /\ Count(calls[c], "broadcast_commit") <= 1
        /\ Done(c) /\ Committed(c) /\ ~(CheckOk(c) /\ DeliverOk(c)) =>
              calls[c] = <<"Account", "sign", "Simulate", "sign", "broadcast_commit">>

C9_Witness ==
    \E c \in Callers :
        /\ Done(c) /\ Committed(c) /\ ~CheckOk(c)
        /\ Returned(c).kind = "Err"
        /\ Count(calls[c], "broadcast_commit") = 1

\* decimal digits of n, as the chain writes a code id
DigitOf(d) == CHOOSE ch \in DigitChars : DigitVal[ch] = d
RECURSIVE ToDecimal(_)
ToDecimal(n) ==
    IF n < 10 THEN <<DigitOf(n)>> ELSE Append(ToDecimal(n \div 10), DigitOf(n % 10))
\* the numeral v without its sign and leading zeros
Canonical(v) ==
    LET u == IF v # <<>> /\ Head(v) = "+" THEN Tail(v) ELSE v
        z == StripZeros(u)
    IN  IF z = <<>> /\ u # <<>> THEN <<"0">> ELSE z
\* v is no unsigned integer numeral: no digit, or a character that is neither
\* a digit nor a leading '+'
NoNumeral(v) ==
    \/ \A i \in 1..Len(v) : v[i] \notin DigitChars
    \/ \E i \in 1..Len(v) : v[i] \notin DigitChars /\ ~(i = 1 /\ v[i] = "+")

\* C10: a successful store returns the unsigned integer that the code_id
\* attribute of the store_code event encodes (an event carrying N yields N),
\* and store fails with the parse error when that value is no unsigned integer.
C10_CodeIdIsParsedAttribute ==
    \A c \in Callers :
        Done(c) /\ op[c] = "store" /\ Committed(c) /\ CheckOk(c) /\ DeliverOk(c) =>
            \A i \in 1..Len(DeliverEvents(c)) :
                IsFirst(DeliverEvents(c), "store_code", i) =>
                    \A j \in 1..Len(DeliverEvents(c)[i].attributes) :
                        IsFirstAttr(DeliverEvents(c)[i].attributes, "code_id", j) =>
                            LET v == DeliverEvents(c)[i].attributes[j].value IN
                            /\ Returned(c).kind = "Ok" =>
                                  ToDecimal(Returned(c).val.code_id) = Canonical(v)
                            /\ NoNumeral(v) =>
                                  Returned(c) = Err("ParseIntError", NoneOpt)
                            /\ v \in {ToDecimal(n) : n \in 0..500} =>
                                  Returned(c).kind = "Ok"

C10_Witness ==
    \E c \in Callers :
        /\ Done(c) /\ op[c] = "store" /\ Returned(c).kind = "Ok"
        /\ Returned(c).val.code_id = 420

\* C11: on a successful instantiate the returned address is, character for
\* character, the value of the first _contract_address attribute of the first
\* instantiate event of the deliver phase.
C11_AddressVerbatim ==
    \A c \in Callers :
        Done(c) /\ op[c] = "instantiate" /\ Returned(c).kind = "Ok" =>
            \E i \in 1..Len(DeliverEvents(c)) :
                /\ IsFirst(DeliverEvents(c), "instantiate", i)
                /\ \E j \in 1..Len(DeliverEvents(c)[i].attributes) :
                     /\ IsFirstAttr(DeliverEvents(c)[i].attributes, "_contract_address", j)
                     /\ Returned(c).val.address = DeliverEvents(c)[i].attributes[j].value

C11_Witness ==
    \E c \in Callers :
        /\ Done(c) /\ op[c] = "instantiate" /\ Returned(c).kind = "Ok"
        /\ Returned(c).val.address = <<"7", "x">>

\* the ceiling of x * r for the fraction r, in exact arithmetic
CeilMulExact(x, r) == (x * r.num + r.den - 1) \div r.den

\* C12: for every simulated gas_used and configured gas_adjustment and
\* gas_price, the fee of the broadcast transaction has gas limit
\* ceil(gas_used x gas_adjustment) and amount ceil(gas_limit x gas_price), in
\* the configured denomination.
C12_FeeIsCeilingOfProduct ==
    \A c \in Callers :
        tx[c] # NoneOpt =>
            LET gas_used == simulated[c][1].gas_used
                paid == tx[c][1].fee
            IN  /\ paid.gas_limit = CeilMulExact(gas_used, cfg.gas_adjustment)
                /\ paid.amount = CeilMulExact(paid.gas_limit, cfg.gas_prices)
                /\ paid.denom = cfg.denom

\* C13: when broadcast_commit itself fails (the transaction was signed and
\* submitted, no commit result obtained), store / instantiate / execute
\* returns a failure value to the caller, a transport error, and does not crash.
C13_TransportFailureReturned ==
    \A c \in Callers :
        Done(c) /\ tx[c] # NoneOpt /\ ~Committed(c) =>
            /\ Returned(c).kind = "Err"
            /\ Returned(c).msg = "transport"

\* the signing primitive failed: the invocation ended on a call of sign
SigningFailed(c) ==
    /\ Done(c)
    /\ calls[c] # <<>>
    /\ calls[c][Len(calls[c])] = "sign"

\* C14: when signing the probe or the transaction fails, store / instantiate /
\* execute returns a failure value to the caller and submits no broadcast.
C14_SigningFailureReturned ==
    \A c \in Callers :
        SigningFailed(c) =>
            /\ Returned(c).kind = "Err"
            /\ Count(calls[c], "broadcast_commit") = 0

\* the fields of the response each operation returns on success
ResponseFields(o) ==
    CASE o = "store" -> {"code_id", "data"}
      [] o = "instantiate" -> {"address", "data"}
      [] OTHER -> {"data"}

C16_DuplicateSequenceOnlyWhenInterleaved ==
    \A c \in Callers :
        /\ race[c].stale => race[c].overlapped
        /\ tx[c] # NoneOpt /\ ~race[c].overlapped /\ Committed(c) /\ CheckOk(c) =>
              \A d \in Callers \ {c} :
                  tx[d] # NoneOpt /\ Committed(d) /\ CheckOk(d) =>
                      tx[d][1].sequence # tx[c][1].sequence

\* two interleaved invocations resolved the same sequence number and both
\* broadcast a transaction carrying it; the first was admitted
C16_Witness ==
    \E c \in Callers, d \in Callers :
        /\ c # d
        /\ race[c].overlapped /\ race[d].overlapped
        /\ tx[c] # NoneOpt /\ tx[d] # NoneOpt
        /\ tx[c][1].sequence = tx[d][1].sequence
        /\ Committed(c) /\ CheckOk(c)
        /\ race[d].stale

\* the calls of one store / instantiate / execute that runs to its end
Stages(o) ==
    <<"Account", "sign", "Simulate", "sign", "broadcast_commit">>
        \o (IF o = "execute" THEN <<>> ELSE <<"find_event">>)
IsPrefix(s, t) == Len(s) <= Len(t) /\ SubSeq(t, 1, Len(s)) = s

\* C17: the stages of one invocation run in the order resolve account,
\* simulate gas, sign, broadcast and confirm, extract, each at most once, and
\* all of them before a success; when the chain gives no account no simulation
\* and no broadcast follow, when the simulation gives no gas info no broadcast
\* follows, and the caller gets the failure of that stage.
C17_StagesInOrderFirstFailureStops ==
    \A c \in Callers :
        op[c] \in TxOps =>
            /\ IsPrefix(calls[c], Stages(op[c]))
            /\ Done(c) /\ Returned(c).kind = "Ok" => calls[c] = Stages(op[c])
            /\ Done(c) /\ Count(calls[c], "Account") > 0 /\ answered[c] = NoneOpt =>
                  /\ calls[c] = <<"Account">>
                  /\ Returned(c).kind = "Err"
            /\ Done(c) /\ Count(calls[c], "Simulate") > 0 /\ simulated[c] = NoneOpt =>
                  /\ calls[c] = <<"Account", "sign", "Simulate">>
                  /\ Returned(c).kind = "Err"

\* the probe was rejected: the caller holds the simulation failure and nothing
\* was broadcast
C17_Witness ==
    \E c \in Callers :
        /\ Done(c) /\ op[c] \in TxOps
        /\ calls[c] = <<"Account", "sign", "Simulate">>
        /\ simulated[c] = NoneOpt
        /\ Returned(c) = Err("error simulating tx", NoneOpt)
        /\ tx[c] = NoneOpt

\* C18: the code id or address that store / instantiate returns comes from
\* the deliver-phase events only, whatever the check phase carries: from the
\* first event of the expected type, and within it from the first attribute
\* with the expected key; without such a deliver event the operation fails.
C18_FirstDeliverEventFirstAttribute ==
    \A c \in Callers :
        Done(c) /\ op[c] \in {"store", "instantiate"}
            /\ Committed(c) /\ CheckOk(c) /\ DeliverOk(c) =>
            LET evs == DeliverEvents(c)
                t == RequiredEvent(op[c])
                k == RequiredKey(op[c])
            IN  /\ ~HasEvent(evs, t) => Returned(c).kind = "Err"
                /\ \A i \in 1..Len(evs) :
                     IsFirst(evs, t, i) =>
                        \A j \in 1..Len(evs[i].attributes) :
                            IsFirstAttr(evs[i].attributes, k, j) =>
                                LET v == evs[i].attributes[j].value IN
                                /\ Returned(c).kind = "Ok" /\ op[c] = "instantiate" =>
                                      Returned(c).val.address = v
                                /\ Returned(c).kind = "Ok" /\ op[c] = "store" =>
                                      ToDecimal(Returned(c).val.code_id) = Canonical(v)
                                /\ NoNumeral(v) /\ op[c] = "store" =>
                                      Returned(c).kind = "Err"

\* two instantiate events with different addresses in the deliver phase and
\* another address in the check phase: the first deliver event's is returned
C18_Witness ==
    \E c \in Callers :
        /\ Done(c) /\ op[c] = "instantiate" /\ Returned(c).kind = "Ok"
        /\ commit[c][1].check_tx.events = CheckEvents
        /\ \E i \in 1..Len(DeliverEvents(c)), n \in 1..Len(DeliverEvents(c)) :
             /\ i < n
             /\ IsFirst(DeliverEvents(c), "instantiate", i)
             /\ DeliverEvents(c)[n].type_str = "instantiate"
             /\ DeliverEvents(c)[n].attributes # <<>>
             /\ DeliverEvents(c)[n].attributes[1].key = "_contract_address"
             /\ DeliverEvents(c)[n].attributes[1].value # Returned(c).val.address
             /\ DeliverEvents(c)[i].attributes[1].value = Returned(c).val.address

\* C19: execute calls no event extractor, and whenever both phases of the
\* commit result are OK it succeeds with the deliver-phase result as it came,
\* whatever events the deliver phase carries.
C19_ExecuteNeedsNoEvent ==
    \A c \in Callers :
        op[c] = "execute" =>
            /\ Count(calls[c], "find_event") = 0
            /\ Done(c) /\ Committed(c) /\ CheckOk(c) /\ DeliverOk(c) =>
                  Returned(c) = Ok([data |-> commit[c][1].deliver_tx])

C19_Witness ==
    \E c \in Callers :
        /\ Done(c) /\ op[c] = "execute"
        /\ Committed(c) /\ CheckOk(c) /\ DeliverOk(c)
        /\ DeliverEvents(c) = <<>>
        /\ Returned(c).kind = "Ok"

\* C20: the simulation probe and the broadcast transaction of one invocation
\* come from one account resolution: same body, sequence number, account
\* number and chain id, the probe with a zero amount and zero gas limit, the
\* transaction with the simulated fee, and the account queried once.
C20_ProbeAndTransactionShareAccount ==
    \A c \in Callers :
        tx[c] # NoneOpt =>
            /\ probe[c] # NoneOpt
            /\ [probe[c][1] EXCEPT !.fee = tx[c][1].fee] = tx[c][1]
            /\ probe[c][1].fee = [denom |-> cfg.denom, amount |-> 0, gas_limit |-> 0]
            /\ tx[c][1].fee = fee[c][1]
            /\ tx[c][1].sequence = answered[c][1].sequence
            /\ tx[c][1].account_number = answered[c][1].account_number
            /\ Count(calls[c], "Account") = 1

C20_Witness ==
    \E c \in Callers :
        /\ tx[c] # NoneOpt /\ probe[c] # NoneOpt
        /\ tx[c][1].sequence = 1 /\ probe[c][1].sequence = 1
        /\ probe[c][1].fee.gas_limit = 0
        /\ tx[c][1].fee.gas_limit = 130000
        /\ tx[c][1].fee.amount = 3250

====
